---- MODULE Spec2Model ----
(***************************************************************************)
(* Model of Passenger::SafeLibev (ext/common/SafeLibev.h): a proxy that    *)
(* lets any thread inject work into the thread running a libev loop.       *)
(*                                                                         *)
(* One thread, Reactor, runs the libev loop (asyncHandler, runCommands,    *)
(* timeoutHandler).  All threads, the reactor included, call the public    *)
(* methods.                                                                *)
(*                                                                         *)
(* The mutex `syncher` is a variable holding its owner.  Every critical    *)
(* section of the source is straight-line code over the data the mutex     *)
(* protects, so each is one step that is enabled when the mutex is free    *)
(* and leaves it free; what happens outside the mutex (ev_async_send in    *)
(* runLater, the calls of the callbacks, the wait on `cond`) is a step of  *)
(* its own.                                                                *)
(*                                                                         *)
(* A callback closure is named by the index of its submission in `cbs`.    *)
(* `cbs`, `started`, `cancelTrue`, `atDestroy`, `loopAccessBy` and `ev`    *)
(* are history variables that the program itself does not have.            *)
(***************************************************************************)
EXTENDS Integers, Sequences, FiniteSets, TLC

\* SafeLibev.h:35 sets MAX_COMMAND_ID to 2^28-1; the model keeps the wrap
\* of incNextCommandId but scales the width down so that the wrap happens.
MAX_COMMAND_ID == 2
\* total number of commands ever appended to the queue
MaxSubmit == 3
\* number of ev_once timers the reactor thread registers in-line at a time
MaxTimers == 1

Reactor == "R"
Foreign == {"F1", "F2"}
Threads == {Reactor} \cup Foreign
NoThread == "none"
Watchers == {"w"}
NoWatcher == "-"
Ids == 0..MAX_COMMAND_ID

VARIABLES
    loopThread,        \* pthread_t loopThread
    thread_signature,  \* oxt::thread_signature, one per thread: "null" or "this"
    syncher,           \* boost::mutex syncher: the thread owning it, or NoThread
    commands,          \* vector<Command> commands
    nextCommandId,     \* unsigned int nextCommandId
    asyncPending,      \* ev_async `async` has been sent and not yet handled
    asyncActive,       \* ev_async `async` is started on the loop
    atDestroy,         \* history: the closures whose commands were in the
                       \* queue when destroy() was called
    active,            \* per watcher: started on the loop
    timers,            \* number of ev_once timers registered and not yet fired
    loopAccessBy,      \* history: the threads that have called into the
                       \* libev loop (ev_async_start, a watcher's set, start
                       \* or stop, ev_once)
    loopState,         \* position of the reactor thread in the libev loop
    batch,             \* runCommands: the local copy `commands`
    it,                \* runCommands: the iterator `it` (index into batch)
    pc,                \* per thread: position inside the public method it is in
    op,                \* per thread: the public method it is in
    mycb,              \* per thread: the closure it appended (0 if none)
    result,            \* per thread in runLater: the local `result`
    done,              \* per thread: the local `bool done` of start/stop/runSync
    cbs,               \* history: the closures ever appended, in append order
    started,           \* history: closures whose call has started, in order
    cancelTrue,        \* history: runLater closures for whose id
                       \* cancelCommand returned true
    ev                 \* history: what the last step did

loopVars  == <<loopState, batch, it>>
queueVars == <<commands, nextCommandId>>
affVars   == <<loopThread, thread_signature>>
\* what only setCurrentThread and destroy change
ctlVars   == <<affVars, asyncActive, atDestroy>>
engVars   == <<active, timers, loopAccessBy>>
callVars  == <<pc, op, mycb, result, done>>
histVars  == <<cbs, started, cancelTrue>>
vars == <<loopThread, thread_signature, syncher, commands, nextCommandId,
          asyncPending, asyncActive, atDestroy, active, timers, loopAccessBy, loopState, batch, it, pc, op, mycb, result, done, cbs, started, cancelTrue, ev>>

Range(s) == {s[i] : i \in 1..Len(s)}

\* ev: the public method that the last step ran in-line on the calling
\* thread from call to return, and that thread; NoEv after any other step
NoEv == [op |-> "none", t |-> NoThread]

Inline(o, t) == [op |-> o, t |-> t]

\* struct Command and its constructor
Command(_id, _callback) ==
    [callback |-> _callback, id |-> _id, canceled |-> FALSE]

\* what boost::bind bound into the closure (the method, the thread whose
\* `done` it points to, the watcher) and the id its command was given
Closure(k, t, w, i) == [kind |-> k, owner |-> t, w |-> w, id |-> i]

\* mutant: the counter goes from MAX_COMMAND_ID to 0
incNextCommandIdToZero(n) ==
    IF n = MAX_COMMAND_ID THEN 0 ELSE n + 1

\* mutant: the counter is not advanced
incNextCommandIdStays(n) == n

incNextCommandId(n) ==
    IF n = MAX_COMMAND_ID THEN 1 ELSE n + 1

\* mutant: every thread is taken for the loop thread
onEventLoopThreadAlways(t) == TRUE

\* mutant: no thread is taken for the loop thread
onEventLoopThreadNever(t) == FALSE

onEventLoopThread(t) ==
    IF thread_signature[t] = "null"
    THEN t = loopThread
    ELSE thread_signature[t] = "this"

\* mutant: the new command overwrites the last one of a non-empty vector
push_backOverLast(q, c) ==
    IF q = <<>> THEN <<c>> ELSE [q EXCEPT ![Len(q)] = c]

\* commands.push_back(c)
push_back(q, c) == Append(q, c)

\* the state after the constructor ran on the reactor thread (it calls
\* ev_async_start on the loop)
Init ==
    /\ loopThread = Reactor
    /\ thread_signature = [t \in Threads |-> "null"]
    /\ syncher = NoThread
    /\ commands = <<>>
    /\ nextCommandId = 1
    /\ asyncPending = FALSE
    /\ asyncActive = TRUE
    /\ atDestroy = {}
    /\ active = [w \in Watchers |-> FALSE]
    /\ timers = 0
    /\ loopAccessBy = {Reactor}
    /\ loopState = "poll"
    /\ batch = <<>>
    /\ it = 1
    /\ pc = [t \in Threads |-> "idle"]
    /\ op = [t \in Threads |-> "none"]
    /\ mycb = [t \in Threads |-> 0]
    /\ result = [t \in Threads |-> 0]
    /\ done = [t \in Threads |-> FALSE]
    /\ cbs = <<>>
    /\ started = <<>>
    /\ cancelTrue = {}
    /\ ev = NoEv

\* a thread may enter a public method: it is in none, and the reactor thread
\* is inside user code, the callback of a command
CanCall(t) ==
    /\ pc[t] = "idle"
    /\ t = Reactor => loopState = "incb"

\* mutant: the loop goes on while the reactor thread is inside a method
LoopFreeAlways == TRUE

\* the reactor thread is not inside a public method
LoopFree == pc[Reactor] = "idle"

CanSubmit == Len(cbs) < MaxSubmit

\* the closure whose call the reactor thread is in, 0 if none
Running ==
    IF loopState \in {"incb", "notify_lock"} THEN batch[it].callback ELSE 0

\* closures whose call has returned
Finished == Range(started) \ {Running}

\* runLater closures whose runLater call has returned
Returned ==
    {c \in 1..Len(cbs) :
        /\ cbs[c].kind = "later"
        /\ \A t \in Threads : ~(pc[t] = "send" /\ mycb[t] = c)}

\* the method returns: its locals are gone
Leave(t) ==
    /\ pc' = [pc EXCEPT ![t] = "idle"]
    /\ op' = [op EXCEPT ![t] = "none"]
    /\ mycb' = [mycb EXCEPT ![t] = 0]
    /\ result' = [result EXCEPT ![t] = 0]

\* start, stop, runSync off the loop thread (SafeLibev.h:173-182, 191-200,
\* 215-224): lock, done = false, push_back, incNextCommandId, ev_async_send,
\* and the first cond.wait(l), which releases the lock
SubmitAndWait(t, o, k, w) ==
    /\ CanSubmit
    /\ syncher = NoThread
    /\ LET c == Len(cbs) + 1 IN
       /\ commands' = push_back(commands, Command(nextCommandId, c))
       /\ cbs' = Append(cbs, Closure(k, t, w, nextCommandId))
       /\ mycb' = [mycb EXCEPT ![t] = c]
       /\ ev' = NoEv
    /\ nextCommandId' = incNextCommandId(nextCommandId)
    /\ asyncPending' = TRUE
    /\ done' = [done EXCEPT ![t] = FALSE]
    /\ pc' = [pc EXCEPT ![t] = "waiting"]
    /\ op' = [op EXCEPT ![t] = o]
    /\ UNCHANGED <<syncher, result, started, cancelTrue>>

\* start(watcher): in-line on the loop thread
start(t, w) ==
    /\ CanCall(t)
    /\ IF onEventLoopThread(t)
       THEN /\ active' = [active EXCEPT ![w] = TRUE]
            /\ loopAccessBy' = loopAccessBy \cup {t}
            /\ ev' = Inline("start", t)
            /\ UNCHANGED <<syncher, queueVars, asyncPending, callVars,
                           histVars>>
       ELSE /\ SubmitAndWait(t, "start", "start", w)
            /\ UNCHANGED <<active, loopAccessBy>>
    /\ UNCHANGED <<ctlVars, timers, loopVars>>

\* stop(watcher): in-line on the loop thread
stop(t, w) ==
    /\ CanCall(t)
    /\ IF onEventLoopThread(t)
       THEN /\ active' = [active EXCEPT ![w] = FALSE]
            /\ loopAccessBy' = loopAccessBy \cup {t}
            /\ ev' = Inline("stop", t)
            /\ UNCHANGED <<syncher, queueVars, asyncPending, callVars,
                           histVars>>
       ELSE /\ SubmitAndWait(t, "stop", "stop", w)
            /\ UNCHANGED <<active, loopAccessBy>>
    /\ UNCHANGED <<ctlVars, timers, loopVars>>

\* runSync(callback): no affinity check
runSync(t) ==
    /\ CanCall(t)
    /\ SubmitAndWait(t, "runSync", "sync", NoWatcher)
    /\ UNCHANGED <<ctlVars, engVars, loopVars>>

\* run(callback): callback() in-line on the loop thread (ev records that the
\* calling thread ran it), otherwise runSync(callback)
run(t) ==
    /\ CanCall(t)
    /\ IF onEventLoopThread(t)
       THEN /\ ev' = Inline("run", t)
            /\ UNCHANGED <<syncher, queueVars, asyncPending, callVars,
                           histVars>>
       ELSE SubmitAndWait(t, "run", "sync", NoWatcher)
    /\ UNCHANGED <<ctlVars, engVars, loopVars>>

\* cond.wait(l) returns without a notification
SpuriousWakeup(t) ==
    /\ pc[t] = "waiting"
    /\ pc' = [pc EXCEPT ![t] = "reacq"]
    /\ ev' = NoEv
    /\ UNCHANGED <<ctlVars, syncher, queueVars, asyncPending, engVars,
                   loopVars, op, mycb, result, done, histVars>>

\* mutant: `if (!done) cond.wait(l)`
WaitLoopExitsAtOnce(d) == TRUE

\* the condition under which `while (!done) cond.wait(l)` is left
WaitLoopExits(d) == d

\* cond.wait(l) takes the lock again and returns; while (!done): the method
\* returns (releasing the lock), or waits again (releasing the lock)
Wakeup(t) ==
    /\ pc[t] = "reacq"
    /\ syncher = NoThread
    /\ IF WaitLoopExits(done[t])
       THEN /\ Leave(t)
            /\ done' = [done EXCEPT ![t] = FALSE]
            /\ ev' = NoEv
       ELSE /\ pc' = [pc EXCEPT ![t] = "waiting"]
            /\ ev' = NoEv
            /\ UNCHANGED <<op, mycb, result, done>>
    /\ UNCHANGED <<ctlVars, syncher, queueVars, asyncPending, engVars,
                   loopVars, histVars>>

\* runLater up to the end of its block (SafeLibev.h:245-251): lock,
\* push_back, result = nextCommandId, incNextCommandId, unlock
LockAndPush(t, o, k) ==
    /\ CanSubmit
    /\ syncher = NoThread
    /\ LET c == Len(cbs) + 1 IN
       /\ commands' = push_back(commands, Command(nextCommandId, c))
       /\ cbs' = Append(cbs, Closure(k, NoThread, NoWatcher, nextCommandId))
       /\ mycb' = [mycb EXCEPT ![t] = c]
       /\ ev' = NoEv
    /\ result' = [result EXCEPT ![t] = nextCommandId]
    /\ nextCommandId' = incNextCommandId(nextCommandId)
    /\ pc' = [pc EXCEPT ![t] = "send"]
    /\ op' = [op EXCEPT ![t] = o]
    /\ UNCHANGED <<syncher, asyncPending, done, started, cancelTrue>>

\* mutant: runLater calls the callback in-line on the loop thread
runLaterShortcut(t) ==
    /\ CanCall(t)
    /\ IF onEventLoopThread(t)
       THEN /\ ev' = Inline("runLater", t)
            /\ UNCHANGED <<syncher, queueVars, asyncPending, callVars,
                           histVars>>
       ELSE LockAndPush(t, "runLater", "later")
    /\ UNCHANGED <<ctlVars, engVars, loopVars>>

\* runLater(callback): no affinity check
runLater(t) ==
    /\ CanCall(t)
    /\ LockAndPush(t, "runLater", "later")
    /\ UNCHANGED <<ctlVars, engVars, loopVars>>

\* mutant: runLater returns without ev_async_send
runLaterReturnsWithoutSend(t) ==
    /\ pc[t] = "send"
    /\ ev' = NoEv
    /\ Leave(t)
    /\ UNCHANGED <<ctlVars, syncher, queueVars, asyncPending, engVars,
                   loopVars, done, histVars>>

\* runLater after its block (SafeLibev.h:252-253): ev_async_send, return
runLaterSend(t) ==
    /\ pc[t] = "send"
    /\ asyncPending' = TRUE
    /\ ev' = NoEv
    /\ Leave(t)
    /\ UNCHANGED <<ctlVars, syncher, queueVars, engVars, loopVars, done,
                   histVars>>

\* runAfter(timeout, callback): ev_once on the calling thread
runAfter(t) ==
    /\ timers' = timers + 1
    /\ loopAccessBy' = loopAccessBy \cup {t}

\* mutant: runAfterTS without the affinity check, i.e. runAfter
runAfterTSUnchecked(t) ==
    /\ CanCall(t)
    /\ timers < MaxTimers
    /\ runAfter(t)
    /\ ev' = Inline("runAfterTS", t)
    /\ UNCHANGED <<syncher, queueVars, asyncPending, callVars, histVars>>
    /\ UNCHANGED <<ctlVars, active, loopVars>>

\* runAfterTS: runAfter in-line on the loop thread, otherwise
\* runLater(bind(runAfter))
runAfterTS(t) ==
    /\ CanCall(t)
    /\ IF onEventLoopThread(t)
       THEN /\ timers < MaxTimers
            /\ runAfter(t)
            /\ ev' = Inline("runAfterTS", t)
            /\ UNCHANGED <<syncher, queueVars, asyncPending, callVars,
                           histVars>>
       ELSE /\ LockAndPush(t, "runAfterTS", "after")
            /\ UNCHANGED <<timers, loopAccessBy>>
    /\ UNCHANGED <<ctlVars, active, loopVars>>

\* the index of the first command of q with this id, 0 if there is none
\* (the loop of SafeLibev.h:271-277)
FirstWithId(q, id) ==
    IF \E i \in 1..Len(q) : q[i].id = id
    THEN CHOOSE i \in 1..Len(q) :
            /\ q[i].id = id
            /\ \A j \in 1..(i - 1) : q[j].id # id
    ELSE 0

\* mutant: the early return for id 0 returns true
CancelReturnZeroTrue(q, id) ==
    IF id = 0 THEN TRUE ELSE FirstWithId(q, id) # 0

\* the value cancelCommand(id) returns on the queue q
CancelReturn(q, id) ==
    IF id = 0 THEN FALSE ELSE FirstWithId(q, id) # 0

\* the queue cancelCommand(id) leaves
CancelEffect(q, id) ==
    IF id = 0 \/ FirstWithId(q, id) = 0
    THEN q
    ELSE [q EXCEPT ![FirstWithId(q, id)].canceled = TRUE]

\* the runLater closures a caller can mean by id: those that were given this
\* id and whose runLater call has returned
Meant(id) == {c \in Returned : cbs[c].id = id}

\* cancelCommand(id): id 0 returns at once, any other id locks and scans
cancelCommand(t, id) ==
    /\ CanCall(t)
    /\ id # 0 => syncher = NoThread
    /\ commands' = CancelEffect(commands, id)
    /\ cancelTrue' = IF CancelReturn(commands, id)
                     THEN cancelTrue \cup Meant(id) ELSE cancelTrue
    /\ ev' = NoEv
    /\ UNCHANGED <<ctlVars, syncher, nextCommandId, asyncPending, engVars,
                   loopVars, callVars, cbs, started>>

\* the command runCommands is at, and its closure
CurCmd == batch[it]
CurCb == cbs[CurCmd.callback]

\* libev calls asyncHandler of the started watcher for a pending
\* ev_async_send and clears the pending state before the call; runCommands
\* reaches its unique_lock
asyncHandler ==
    /\ LoopFree
    /\ loopState = "poll"
    /\ asyncActive
    /\ asyncPending
    /\ asyncPending' = FALSE
    /\ loopState' = "rc_lock"
    /\ ev' = NoEv
    /\ UNCHANGED <<ctlVars, syncher, queueVars, engVars, batch, it,
                   callVars, histVars>>

\* mutant: l.unlock() is missing, the lock is held until runCommands returns
AfterUnlockStillOwned == Reactor

\* the owner of syncher after l.unlock() (SafeLibev.h:74)
AfterUnlock == NoThread

\* mutant: runCommands goes through the vector from its end
IterationOrderReversed(q) == [i \in 1..Len(q) |-> q[Len(q) + 1 - i]]

\* the order in which runCommands goes through the vector it copied
IterationOrder(q) == q

\* mutant: this->commands.clear() is missing
AfterClearKeepsQueue(q) == q

\* what is left in this->commands after the copy (SafeLibev.h:73)
AfterClear(q) == <<>>

\* runCommands: lock, copy the vector, clear it, unlock (SafeLibev.h:71-74)
runCommandsCopy ==
    /\ loopState = "rc_lock"
    /\ syncher = NoThread
    /\ batch' = IterationOrder(commands)
    /\ commands' = AfterClear(commands)
    /\ it' = 1
    /\ syncher' = AfterUnlock
    /\ loopState' = "rc_iter"
    /\ ev' = NoEv
    /\ UNCHANGED <<ctlVars, nextCommandId, asyncPending, engVars,
                   callVars, histVars>>

\* runCommands: a canceled command is passed over
runCommandsSkip ==
    /\ loopState = "rc_iter"
    /\ it <= Len(batch)
    /\ CurCmd.canceled
    /\ it' = it + 1
    /\ ev' = NoEv
    /\ UNCHANGED <<ctlVars, syncher, queueVars, asyncPending, engVars,
                   loopState, batch, callVars, histVars>>

\* runCommands: it->callback() is called.  A runLater callback and the
\* callback of runAndNotify are user code (the reactor thread stays in it
\* until CallbackReturns); startWatcherAndNotify and stopWatcherAndNotify act
\* on the watcher and reach their unique_lock; the bound runAfter registers
\* the timer and returns.
runCommandsCall ==
    /\ loopState = "rc_iter"
    /\ it <= Len(batch)
    /\ ~CurCmd.canceled
    /\ started' = Append(started, CurCmd.callback)
    /\ ev' = NoEv
    /\ CASE CurCb.kind \in {"later", "sync"} ->
              /\ loopState' = "incb"
              /\ UNCHANGED <<engVars, it>>
         [] CurCb.kind = "start" ->
              /\ active' = [active EXCEPT ![CurCb.w] = TRUE]
              /\ loopAccessBy' = loopAccessBy \cup {Reactor}
              /\ loopState' = "notify_lock"
              /\ UNCHANGED <<timers, it>>
         [] CurCb.kind = "stop" ->
              /\ active' = [active EXCEPT ![CurCb.w] = FALSE]
              /\ loopAccessBy' = loopAccessBy \cup {Reactor}
              /\ loopState' = "notify_lock"
              /\ UNCHANGED <<timers, it>>
         [] CurCb.kind = "after" ->
              /\ runAfter(Reactor)
              /\ it' = it + 1
              /\ UNCHANGED <<active, loopState>>
    /\ UNCHANGED <<ctlVars, syncher, queueVars, asyncPending, batch,
                   callVars, cbs, cancelTrue>>

\* the user callback of the command returns: a runLater command is over,
\* runAndNotify reaches its unique_lock
CallbackReturns ==
    /\ LoopFree
    /\ loopState = "incb"
    /\ ev' = NoEv
    /\ IF CurCb.kind = "later"
       THEN /\ it' = it + 1
            /\ loopState' = "rc_iter"
       ELSE /\ loopState' = "notify_lock"
            /\ UNCHANGED it
    /\ UNCHANGED <<ctlVars, syncher, queueVars, asyncPending, engVars, batch,
                   callVars, histVars>>

\* startWatcherAndNotify, stopWatcherAndNotify, runAndNotify: lock,
\* *done = true, cond.notify_all(); the lock is released on return
Notify ==
    /\ loopState = "notify_lock"
    /\ syncher = NoThread
    /\ done' = [done EXCEPT ![CurCb.owner] = TRUE]
    /\ pc' = [t \in Threads |-> IF pc[t] = "waiting" THEN "reacq" ELSE pc[t]]
    /\ it' = it + 1
    /\ loopState' = "rc_iter"
    /\ ev' = NoEv
    /\ UNCHANGED <<ctlVars, syncher, queueVars, asyncPending, engVars, batch,
                   op, mycb, result, histVars>>

\* runCommands returns: its locals are gone, a lock still owned by `l` is
\* released by its destructor
runCommandsEnd ==
    /\ loopState = "rc_iter"
    /\ it > Len(batch)
    /\ batch' = <<>>
    /\ it' = 1
    /\ syncher' = IF syncher = Reactor THEN NoThread ELSE syncher
    /\ loopState' = "poll"
    /\ ev' = NoEv
    /\ UNCHANGED <<ctlVars, queueVars, asyncPending, engVars,
                   callVars, histVars>>

\* an ev_once timer expires: timeoutHandler calls the callback on the
\* thread that runs the loop, and the callback returns
timeoutHandler ==
    /\ LoopFree
    /\ loopState = "poll"
    /\ timers > 0
    /\ timers' = timers - 1
    /\ ev' = NoEv
    /\ UNCHANGED <<ctlVars, syncher, queueVars, asyncPending, active,
                   loopAccessBy, loopVars, callVars, histVars>>

\* destroy(): ev_async_stop(loop, &async) on the calling thread.  It takes
\* no lock and leaves `commands` and the position of a runCommands that was
\* already entered as they are.
destroy(t) ==
    /\ CanCall(t)
    /\ asyncActive' = FALSE
    /\ atDestroy' = atDestroy \cup {c.callback : c \in Range(commands)}
    /\ loopAccessBy' = loopAccessBy \cup {t}
    /\ ev' = Inline("destroy", t)
    /\ UNCHANGED <<affVars, syncher, queueVars, asyncPending, active, timers,
                   loopVars, callVars, histVars>>

\* setCurrentThread() on thread t, in a build with
\* OXT_THREAD_LOCAL_KEYWORD_SUPPORTED: loopThread = pthread_self(), and the
\* thread-local oxt::thread_signature of t is set to `this`
setCurrentThread(t) ==
    /\ pc[t] = "idle"
    /\ loopThread' = t
    /\ thread_signature' = [thread_signature EXCEPT ![t] = "this"]
    /\ ev' = Inline("setCurrentThread", t)
    /\ UNCHANGED <<asyncActive, atDestroy, syncher, queueVars, asyncPending,
                   engVars, loopVars, callVars, histVars>>

\* In Spec the loop stays on the thread that constructed the object, and
\* the object is not destroyed.
Next ==
    \/ \E t \in Threads, w \in Watchers : start(t, w)
    \/ \E t \in Threads, w \in Watchers : stop(t, w)
    \/ \E t \in Threads : run(t)
    \/ \E t \in Threads : runSync(t)
    \/ \E t \in Threads : runAfterTS(t)
    \/ \E t \in Threads : runLater(t)
    \/ \E t \in Threads : runLaterSend(t)
    \/ \E t \in Threads, id \in Ids : cancelCommand(t, id)
    \/ \E t \in Threads : SpuriousWakeup(t)
    \/ \E t \in Threads : Wakeup(t)
    \/ asyncHandler
    \/ runCommandsCopy
    \/ runCommandsSkip
    \/ runCommandsCall
    \/ CallbackReturns
    \/ Notify
    \/ runCommandsEnd
    \/ timeoutHandler

Spec == Init /\ [][Next]_vars

\* Relocation: any thread that is in no method may call setCurrentThread();
\* the threads call the methods that consult onEventLoopThread().
NextAff ==
    \/ \E t \in Threads : setCurrentThread(t)
    \/ \E t \in Threads, w \in Watchers : start(t, w)
    \/ \E t \in Threads, w \in Watchers : stop(t, w)
    \/ \E t \in Threads : run(t)
    \/ \E t \in Threads : runAfterTS(t)
    \/ \E t \in Threads : runLaterSend(t)

SpecAff == Init /\ [][NextAff]_vars

\* a step of the thread that runs the libev loop
ReactorStep ==
    \/ asyncHandler
    \/ runCommandsCopy
    \/ runCommandsSkip
    \/ runCommandsCall
    \/ CallbackReturns
    \/ Notify
    \/ runCommandsEnd
    \/ timeoutHandler

\* Scheduling: the reactor thread keeps running its loop and every user
\* callback returns unless it blocks inside a method of this class
\* (ReactorStep); a thread past the block of runLater goes on to
\* ev_async_send; a thread that cond.notify_all() or a spurious wake-up took
\* out of cond.wait gets the mutex again.
Fairness ==
    /\ WF_vars(ReactorStep)
    /\ \A t \in Threads : WF_vars(runLaterSend(t))
    /\ \A t \in Threads : WF_vars(Wakeup(t))

\* Liveness is checked on the program without timers (runAfterTS,
\* timeoutHandler), which take no part in the waiting and the waking up.
NextLive ==
    \/ \E t \in Threads, w \in Watchers : start(t, w)
    \/ \E t \in Threads, w \in Watchers : stop(t, w)
    \/ \E t \in Threads : run(t)
    \/ \E t \in Threads : runSync(t)
    \/ \E t \in Threads : runLater(t)
    \/ \E t \in Threads : runLaterSend(t)
    \/ \E t \in Threads, id \in Ids : cancelCommand(t, id)
    \/ \E t \in Threads : SpuriousWakeup(t)
    \/ \E t \in Threads : Wakeup(t)
    \/ asyncHandler
    \/ runCommandsCopy
    \/ runCommandsSkip
    \/ runCommandsCall
    \/ CallbackReturns
    \/ Notify
    \/ runCommandsEnd

SpecLive == Init /\ [][NextLive]_vars /\ Fairness

\* Destruction: any thread may call destroy(); the threads submit with
\* runLater and runSync, and the reactor thread drains.
NextDestroy ==
    \/ \E t \in Threads : destroy(t)
    \/ \E t \in Threads : runSync(t)
    \/ \E t \in Threads : runLater(t)
    \/ \E t \in Threads : runLaterSend(t)
    \/ \E t \in Threads : Wakeup(t)
    \/ asyncHandler
    \/ runCommandsCopy
    \/ runCommandsCall
    \/ CallbackReturns
    \/ Notify
    \/ runCommandsEnd

SpecDestroy == Init /\ [][NextDestroy]_vars

(***************************************************************************)
(* Properties                                                              *)
(***************************************************************************)

\* commands that runCommands has copied and not called or passed over yet
BatchAhead ==
    IF loopState \in {"incb", "notify_lock"}
    THEN {batch[i] : i \in (it + 1)..Len(batch)}
    ELSE {batch[i] : i \in it..Len(batch)}

\* commands appended and not called yet
Waiting == Range(commands) \cup BatchAhead

Blocking == {"start", "stop", "run", "runSync"}

\* the step in which thread t returns from a blocking method
Returns(t) == pc[t] \in {"waiting", "reacq"} /\ pc'[t] = "idle"

\* C1: commands are called in the order of their appends: the calls made so
\* far are in append order, each call but the last one made has returned,
\* and no call has overtaken a command that was appended earlier, is not
\* canceled and still waits (in the queue or in the batch a drain took),
\* whatever batches the commands fell into.
C1_SubmissionOrder ==
    /\ \A i, j \in 1..Len(started) : i < j => started[i] < started[j]
    /\ \A i \in 1..(Len(started) - 1) : started[i] \in Finished
    /\ \A c \in Waiting :
          ~c.canceled => \A i \in 1..Len(started) : started[i] < c.callback

\* three commands were called, the first in one drain, the next two in the
\* same later drain
C1_Witness ==
    /\ started = <<1, 2, 3>>
    /\ Len(batch) = 2
    /\ it = 2
    /\ loopState = "incb"

\* C2: once cancelCommand(id) has returned true for an id that a returned
\* runLater call was given, the callback of that runLater call is not called
\* any more.
C2_CanceledNeverCalled ==
    [][\A c \in cancelTrue :
          c \in Range(started') => c \in Range(started)]_vars

\* C3: in a state in which cancelCommand(id) can be called and returns false,
\* every runLater callback that was given this id (by a runLater call that
\* has returned) has been called or is being called.
C3_FalseMeansCalled ==
    \A id \in 1..MAX_COMMAND_ID :
        ((\E t \in Threads : CanCall(t))
            /\ syncher = NoThread
            /\ ~CancelReturn(commands, id))
        => Meant(id) \subseteq Range(started)

\* the closure appended last
LastCb == Len(cbs)

\* C4: a foreign thread returns from start or stop only after the command it
\* appended has been called and has returned; that command acts on the
\* watcher (a start command leaves it started, a stop command stopped); only
\* the reactor thread ever calls into the libev loop.
C4_StartStopReturn ==
    [][/\ \A t \in Foreign :
            (Returns(t) /\ op[t] \in {"start", "stop"})
            => (mycb[t] \in Finished /\ t \notin loopAccessBy')
       /\ Len(started') > Len(started)
            => LET cb == cbs[started'[Len(started')]] IN
               /\ cb.kind = "start" => active'[cb.w]
               /\ cb.kind = "stop" => ~active'[cb.w]
       /\ loopAccessBy' \subseteq {Reactor}]_vars

\* two foreign threads were blocked in start or stop with their commands in
\* the same batch; the first command is over and its thread has returned,
\* the second thread is still blocked
C4_Witness ==
    /\ Len(batch) = 2
    /\ it = 2
    /\ \A i \in 1..2 : cbs[batch[i].callback].kind \in {"start", "stop"}
    /\ pc[cbs[batch[1].callback].owner] = "idle"
    /\ pc[cbs[batch[2].callback].owner] \in {"waiting", "reacq"}
    /\ batch[2].callback \notin Finished

\* the number of times closure c was called
Calls(c) == Cardinality({i \in 1..Len(started) : started[i] = c})

\* C5: when run(callback) returns, the callback has been called exactly once
\* and has returned, and the reactor thread called it: a thread that runs it
\* in-line is the reactor thread, and a thread that went through runSync
\* returns after the one call of its command by runCommands.
C5_RunReturn ==
    [][/\ ev'.op = "run" => ev'.t = Reactor
       /\ \A t \in Threads :
            (Returns(t) /\ op[t] = "run")
            => (mycb[t] \in Finished /\ Calls(mycb[t]) = 1)]_vars

\* a foreign thread in run has been notified after the call of its callback
\* and is about to return
C5_Witness ==
    \E t \in Foreign :
        /\ op[t] = "run"
        /\ pc[t] = "reacq"
        /\ done[t]
        /\ mycb[t] \in Finished

\* the step is a call of a public method by the reactor thread: one that
\* runs in-line, or one that leaves the thread inside the method
ReactorCalls ==
    \/ ev' # NoEv /\ ev'.t = Reactor
    \/ pc[Reactor] = "idle" /\ pc'[Reactor] # "idle"

\* C6 as stated: every method called on the reactor thread leaves the queue
\* and the id counter unchanged.
C6_ReactorNeverQueues ==
    [][ReactorCalls => UNCHANGED <<commands, nextCommandId>>]_vars

\* C6 amended: start, stop, run and runAfterTS called on the reactor thread
\* run in-line (the watcher is started or stopped, the callback is called,
\* the timer is registered, by the reactor thread, in the step of the call)
\* and leave the queue and the id counter unchanged; the only methods that
\* the reactor thread is ever inside of are runLater and runSync, which
\* append a command.
C6_ReactorInline ==
    [][/\ op'[Reactor] \in {"none", "runLater", "runSync"}
       /\ (ev' # NoEv /\ ev'.t = Reactor)
            => /\ UNCHANGED <<commands, nextCommandId>>
               /\ pc'[Reactor] = "idle"
               /\ ev'.op = "start" => \E w \in Watchers : active'[w]
               /\ ev'.op = "stop" => \E w \in Watchers : ~active'[w]
               /\ ev'.op = "runAfterTS" => timers' = timers + 1
               /\ Reactor \in loopAccessBy'
       /\ (pc[Reactor] = "idle" /\ pc'[Reactor] # "idle")
            => Len(commands') = Len(commands) + 1]_vars

\* the reactor thread has registered a timer in-line from inside a callback
\* while commands were in the queue
C6_Witness ==
    /\ ev = Inline("runAfterTS", Reactor)
    /\ timers = 1
    /\ loopState = "incb"
    /\ Len(commands) > 0

\* C7: runLater appends a command and sends the wake-up on every thread: no
\* thread runs it in-line, the step that enters it appends the command with
\* the current id, the step that leaves it leaves the wake-up pending; while
\* the reactor thread is in runLater, and until the next drain, the callback
\* has not been called and its command is in the queue.
C7_RunLaterQueues ==
    [][/\ ev'.op # "runLater"
       /\ \A t \in Threads :
            /\ (pc[t] = "idle" /\ op'[t] = "runLater")
                 => /\ commands' = Append(commands,
                                      Command(nextCommandId, LastCb + 1))
                    /\ mycb'[t] = LastCb + 1
                    /\ pc'[t] = "send"
            /\ (pc[t] = "send" /\ pc'[t] = "idle") => asyncPending'
       /\ (pc'[Reactor] = "send" /\ op'[Reactor] = "runLater")
            => /\ mycb'[Reactor] \notin Range(started')
               /\ \E i \in 1..Len(commands') :
                     commands'[i].callback = mycb'[Reactor]]_vars

\* the reactor thread, inside a callback, is in runLater past its block:
\* the command is in the queue and its callback has not been called
C7_Witness ==
    /\ loopState = "incb"
    /\ pc[Reactor] = "send"
    /\ op[Reactor] = "runLater"
    /\ \E i \in 1..Len(commands) : commands[i].callback = mycb[Reactor]
    /\ mycb[Reactor] \notin Range(started)

\* the id that the c-th submission is given when the counter starts at 1,
\* advances by one and goes from MAX_COMMAND_ID to 1
IdOfSubmission(c) == ((c - 1) % MAX_COMMAND_ID) + 1

\* C8: the counter is in 1..MAX_COMMAND_ID, the c-th submission of any kind
\* was given the id IdOfSubmission(c), the counter is the id of the next
\* submission, and no command has id 0.
C8_IdCounter ==
    /\ nextCommandId \in 1..MAX_COMMAND_ID
    /\ nextCommandId = IdOfSubmission(Len(cbs) + 1)
    /\ \A c \in 1..Len(cbs) : cbs[c].id = IdOfSubmission(c)
    /\ \A c \in Range(commands) \cup Range(batch) :
          c.id # 0 /\ c.id = cbs[c.callback].id

\* the counter has wrapped: the submission after the one that was given
\* MAX_COMMAND_ID was given 1
C8_Witness ==
    /\ Len(cbs) > MAX_COMMAND_ID
    /\ cbs[MAX_COMMAND_ID].id = MAX_COMMAND_ID
    /\ cbs[MAX_COMMAND_ID + 1].id = 1

\* C9: in every state cancelCommand(0) returns false and leaves the queue as
\* it is (order, ids, canceled flags); the step of a cancelCommand(0) call
\* changes neither the queue nor the id counter.
C9_CancelZero ==
    /\ CancelReturn(commands, 0) = FALSE
    /\ CancelEffect(commands, 0) = commands
    /\ \A t \in Threads :
          CanCall(t) => ENABLED (cancelCommand(t, 0)
                                   /\ UNCHANGED <<commands, nextCommandId>>)

\* a queue with a canceled and a not canceled command, on which
\* cancelCommand(0) can be called
C9_Witness ==
    /\ Len(commands) >= 2
    /\ \E i, j \in 1..Len(commands) :
          commands[i].canceled /\ ~commands[j].canceled
    /\ \E t \in Threads : CanCall(t)

\* C10: runLater, runAfterTS and cancelCommand wait for nothing but the
\* lock, and the lock is free whenever a thread is outside a critical
\* section: in every state a thread that is in no method can take the first
\* step of each of them (as far as the bounds of the model allow another
\* command), a thread past the block of runLater can send and return, and
\* the only threads that wait on the condition variable are in start, stop,
\* run or runSync.
C10_NoWaiting ==
    /\ syncher = NoThread
    /\ \A t \in Threads :
          /\ pc[t] \in {"waiting", "reacq"} => op[t] \in Blocking
          /\ pc[t] = "send" => ENABLED runLaterSend(t)
          /\ CanCall(t) => \A id \in Ids : ENABLED cancelCommand(t, id)
          /\ (CanCall(t) /\ CanSubmit) => ENABLED runLater(t)
          /\ (CanCall(t) /\ CanSubmit /\ t \in Foreign)
               => ENABLED runAfterTS(t)

\* the reactor thread is inside a callback, a foreign thread is blocked in
\* runSync, and the other foreign thread is past the block of runLater
C10_Witness ==
    /\ loopState = "incb"
    /\ \E t, u \in Foreign :
          /\ pc[t] = "waiting" /\ op[t] = "runSync"
          /\ pc[u] = "send" /\ op[u] = "runLater"

\* the step in which runCommands calls a command that binds runAfter
DrainCallsAfter ==
    /\ Len(started') = Len(started) + 1
    /\ cbs[started'[Len(started')]].kind = "after"

\* C11: runAfterTS on a foreign thread registers no timer on that thread: the
\* step of the call leaves the timers alone and appends a command that binds
\* runAfter; only the reactor thread ever registers a timer or calls into the
\* loop, either in-line in its own runAfterTS or when runCommands calls such
\* a command; and that call only registers the timer: runCommands goes on
\* to the next command without entering the user callback, which is left to
\* timeoutHandler.
C11_TimerOnReactor ==
    [][/\ \A t \in Foreign :
            (pc[t] = "idle" /\ op'[t] = "runAfterTS")
            => /\ timers' = timers
               /\ t \notin loopAccessBy'
               /\ commands' = Append(commands,
                                     Command(nextCommandId, LastCb + 1))
               /\ cbs'[LastCb + 1].kind = "after"
       /\ ev'.op = "runAfterTS" => ev'.t = Reactor
       /\ timers' > timers
            => /\ timers' = timers + 1
               /\ loopAccessBy' \subseteq {Reactor}
               /\ \/ ev' = Inline("runAfterTS", Reactor)
                  \/ loopState = "rc_iter" /\ DrainCallsAfter
       /\ DrainCallsAfter
            => /\ timers' = timers + 1
               /\ loopState' = "rc_iter"
               /\ it' = it + 1]_vars

\* a foreign thread has returned from runAfterTS, runCommands has called its
\* command and is at the next one, and the timer is registered and has not
\* expired
C11_Witness ==
    /\ loopState = "rc_iter"
    /\ it = 2
    /\ cbs[batch[1].callback].kind = "after"
    /\ batch[1].callback \in Range(started)
    /\ timers = 1
    /\ \A t \in Foreign : pc[t] = "idle"
    /\ loopAccessBy = {Reactor}

\* C12: a command that was in the queue when destroy() was called is dropped:
\* its callback is never called.
C12_DroppedAfterDestroy ==
    \A c \in atDestroy : c \notin Range(started)

\* the command of closure c is in the queue and not canceled
Queued(c) ==
    \E i \in 1..Len(commands) :
        commands[i].callback = c /\ ~commands[i].canceled

\* the command of closure c has been canceled
Canceled(c) ==
    \E x \in Range(commands) \cup Range(batch) :
        x.callback = c /\ x.canceled

\* the reactor thread is blocked in cond.wait inside a callback
ReactorBlocked == pc[Reactor] \in {"waiting", "reacq"}

\* whenever the queue holds a command, a wake-up is pending or on its way:
\* the watcher is pending, or runCommands is entered and has not copied the
\* queue yet, or a thread is between the block of runLater and its
\* ev_async_send
WakeupCovers ==
    commands # <<>>
    => \/ asyncPending
       \/ loopState = "rc_lock"
       \/ \E t \in Threads : pc[t] = "send"

\* C13: the queue is never left with a command and no wake-up pending or on
\* its way; and if no callback blocks the reactor thread for ever, every
\* command that is in the queue and not canceled is eventually called or
\* canceled.
C13_EventuallyCalled ==
    /\ []WakeupCovers
    /\ [](~ReactorBlocked)
         => \A c \in 1..MaxSubmit :
               Queued(c) ~> (c \in Range(started) \/ Canceled(c))

\* runCommands took and called a command before the thread that appended it
\* had sent its wake-up
C13_Witness ==
    \E t \in Foreign :
        /\ pc[t] = "send"
        /\ mycb[t] \in Range(started)
        /\ commands # <<>>

\* C14: in every state, for every id other than 0: if the queue holds a
\* command with this id that is not canceled, cancelCommand(id) returns true
\* and leaves such a command marked canceled; if the queue holds no command
\* with this id, it returns false; in both cases the queue keeps its length
\* and order, no command with another id changes, and the step of the call
\* leaves the id counter unchanged.
C14_CancelMarks ==
    \A id \in 1..MAX_COMMAND_ID :
        LET q == CancelEffect(commands, id)
            Live == {i \in 1..Len(commands) :
                        commands[i].id = id /\ ~commands[i].canceled}
        IN  /\ Live # {}
                 => /\ CancelReturn(commands, id)
                    /\ \E i \in Live : q[i].canceled
            /\ (\A i \in 1..Len(commands) : commands[i].id # id)
                 => ~CancelReturn(commands, id)
            /\ Len(q) = Len(commands)
            /\ \A j \in 1..Len(q) :
                  /\ q[j].id = commands[j].id
                  /\ q[j].callback = commands[j].callback
                  /\ commands[j].id # id => q[j] = commands[j]
            /\ \A t \in Threads :
                  (CanCall(t) /\ syncher = NoThread)
                  => ENABLED (/\ cancelCommand(t, id)
                              /\ commands' = q
                              /\ nextCommandId' = nextCommandId)

\* C15 as stated: the commands in the queue that are not canceled have
\* pairwise distinct ids.
C15_DistinctIds ==
    \A i, j \in 1..Len(commands) :
        (i # j /\ ~commands[i].canceled /\ ~commands[j].canceled)
        => commands[i].id # commands[j].id

\* C15 amended: the ids in the queue are consecutive in append order, modulo
\* the wrap from MAX_COMMAND_ID to 1, and the counter is the successor of
\* the last one; two commands in the queue have the same id only if a
\* multiple of MAX_COMMAND_ID appends lie between them, so the ids are
\* pairwise distinct as long as the queue holds at most MAX_COMMAND_ID
\* commands.
C15_ConsecutiveIds ==
    /\ \A i \in 1..(Len(commands) - 1) :
          commands[i + 1].id = (commands[i].id % MAX_COMMAND_ID) + 1
    /\ commands # <<>>
         => nextCommandId
              = (commands[Len(commands)].id % MAX_COMMAND_ID) + 1
    /\ \A i, j \in 1..Len(commands) :
          (i < j /\ commands[i].id = commands[j].id)
          => (j - i) % MAX_COMMAND_ID = 0
    /\ Len(commands) <= MAX_COMMAND_ID
         => \A i, j \in 1..Len(commands) :
               i # j => commands[i].id # commands[j].id

\* the queue holds more than MAX_COMMAND_ID commands, none canceled: the
\* first and the last have the same id
C15_Witness ==
    /\ Len(commands) = MAX_COMMAND_ID + 1
    /\ \A i \in 1..Len(commands) : ~commands[i].canceled
    /\ commands[1].id = commands[MAX_COMMAND_ID + 1].id

\* runCommands is past its copy and has not returned
Draining == loopState \in {"rc_iter", "incb", "notify_lock"}

\* C16: when runCommands is at its lock, its next step takes the whole queue
\* as the batch, leaves the queue empty and the lock free; from then until it
\* returns the reactor thread does not own the lock; while it is inside a
\* callback, every thread that is in no method, the reactor thread in its
\* callback included, can call cancelCommand and (as far as the bounds allow
\* another command) runLater, a foreign thread can also append with runSync,
\* a thread past the block of runLater can send, and once the reactor thread
\* is back from such a call the callback can return.
C16_DrainUnlocked ==
    /\ loopState = "rc_lock"
         => ENABLED (/\ runCommandsCopy
                     /\ batch' = commands
                     /\ commands' = <<>>
                     /\ syncher' = NoThread)
    /\ Draining => syncher # Reactor
    /\ loopState = "incb"
         => /\ \A t \in Threads :
                 /\ pc[t] = "idle"
                      => \A id \in Ids : ENABLED cancelCommand(t, id)
                 /\ (pc[t] = "idle" /\ CanSubmit) => ENABLED runLater(t)
                 /\ (pc[t] = "idle" /\ CanSubmit /\ t \in Foreign)
                      => ENABLED runSync(t)
                 /\ pc[t] = "send" => ENABLED runLaterSend(t)
            /\ pc[Reactor] = "idle" => ENABLED CallbackReturns

\* the first of two commands of a batch is running; meanwhile a command was
\* appended and canceled, and the reactor thread, in the callback, is in
\* runLater past its block
C16_Witness ==
    /\ loopState = "incb"
    /\ Len(batch) = 2
    /\ it = 1
    /\ Len(commands) = 1
    /\ pc[Reactor] = "send"
    /\ commands[1].callback = mycb[Reactor]
    /\ commands[1].canceled

\* the threads that onEventLoopThread() takes for the loop thread
OnLoop == {t \in Threads : onEventLoopThread(t)}

\* C17: at most one thread is taken for the loop thread by
\* onEventLoopThread(); after thread T has called setCurrentThread(),
\* onEventLoopThread() is true on T and false on every other thread.
C17_OneReactor ==
    /\ Cardinality(OnLoop) <= 1
    /\ ev.op = "setCurrentThread" => OnLoop = {ev.t}

\* C18: if no callback blocks the reactor thread for ever, a foreign thread
\* that waits in start, stop, run or runSync eventually returns, whatever
\* runLater and cancelCommand calls the other threads make.
C18_BlockedReturns ==
    [](~ReactorBlocked)
    => \A t \in Foreign :
          (pc[t] \in {"waiting", "reacq"}) ~> (pc[t] = "idle")

\* the closures of the commands of q, in order
Callbacks(q) == [i \in 1..Len(q) |-> q[i].callback]

\* C19: every appended command is taken by exactly one drain and called at
\* most once.  A step changes the queue only by appending the command of a
\* new closure, by marking a command canceled, or by the copy of
\* runCommands, which takes all of the queue, in order, as its batch and
\* leaves the queue empty; the batch changes only in that copy and when
\* runCommands returns, and by then each of its commands was called once or
\* was canceled; no closure is in the queue or the batch twice or in both,
\* none that is still in the queue has been called, and none has been
\* called twice.
C19_TakenOnce ==
    [][/\ commands' # commands
            => \/ /\ Len(cbs') = Len(cbs) + 1
                  /\ commands' = Append(commands,
                                        Command(nextCommandId, Len(cbs')))
               \/ /\ Callbacks(commands') = Callbacks(commands)
                  /\ cbs' = cbs
               \/ /\ loopState = "rc_lock"
                  /\ batch' = commands
                  /\ commands' = <<>>
       /\ Len(cbs') > Len(cbs)
            => Callbacks(commands')
                 = Append(Callbacks(commands), Len(cbs'))
       /\ batch' # batch
            => \/ loopState = "rc_lock" /\ batch = <<>> /\ batch' = commands
               \/ /\ batch' = <<>>
                  /\ \A i \in 1..Len(batch) :
                        \/ batch[i].canceled
                        \/ Calls(batch[i].callback) = 1
       /\ LET all == Callbacks(batch') \o Callbacks(commands') IN
            \A i, j \in 1..Len(all) : i # j => all[i] # all[j]
       /\ \A i \in 1..Len(commands') :
             commands'[i].callback \notin Range(started')
       /\ \A c \in 1..Len(cbs') :
             Cardinality({i \in 1..Len(started') : started'[i] = c}) <= 1
      ]_vars

\* runCommands has called both commands of its batch and is about to
\* return; a command that was appended while it went through the batch is in
\* the queue with its wake-up pending
C19_Witness ==
    /\ loopState = "rc_iter"
    /\ Len(batch) = 2
    /\ it = 3
    /\ \A i \in 1..2 : Calls(batch[i].callback) = 1
    /\ Callbacks(commands) = <<3>>
    /\ asyncPending

\* C20: run(callback) on the reactor thread, which is inside a callback of a
\* drain, calls the callback in-line and returns in the same step: the
\* thread is in no method afterwards, still in the callback of the drain,
\* and the queue is untouched; the reactor thread is never anywhere in run.
\* runSync(callback) on the reactor thread appends its command and never
\* returns: once the thread waits it waits in every later state, its `done`
\* is never set and its command is never called, because runCommands does
\* not go on while the thread is in the method.
C20_RunReturnsRunSyncHangs ==
    [][/\ ev' = Inline("run", Reactor)
            => /\ loopState = "incb" /\ loopState' = "incb"
               /\ pc'[Reactor] = "idle"
               /\ UNCHANGED <<commands, nextCommandId>>
       /\ op'[Reactor] # "run"
       /\ (pc[Reactor] = "idle" /\ op'[Reactor] = "runSync")
            => /\ commands' = Append(commands,
                                     Command(nextCommandId, LastCb + 1))
               /\ mycb'[Reactor] = LastCb + 1
               /\ pc'[Reactor] = "waiting"
       /\ ReactorBlocked
            => /\ ReactorBlocked'
               /\ op'[Reactor] = "runSync"
               /\ ~done'[Reactor]
               /\ mycb'[Reactor] \notin Range(started')
               /\ UNCHANGED loopVars]_vars

\* the reactor thread waits in runSync inside a callback, its command is in
\* the queue with the wake-up pending, and a foreign thread waits in start,
\* stop, run or runSync
C20_Witness ==
    /\ loopState = "incb"
    /\ pc[Reactor] = "waiting"
    /\ op[Reactor] = "runSync"
    /\ asyncPending
    /\ \E i \in 1..Len(commands) : commands[i].callback = mycb[Reactor]
    /\ \E t \in Foreign : pc[t] = "waiting"

====
